---- MODULE Spec2Model ----
(***************************************************************************)
(* Task-List-Manager: the TaskManager component (src/src/components/       *)
(* TaskManager.tsx) and the App shell (src/src/App.tsx) as a state machine.*)
(* One action per event handler; a handler that calls setTasks includes    *)
(* the useEffect that writes the new collection to localStorage.           *)
(***************************************************************************)
EXTENDS Integers, Sequences, FiniteSets, TLC

VARIABLES
    pc,                  \* "boot" | "app" | "running" | "crashed"
    localStorage,        \* [tasks |-> slot, theme |-> slot]
    now,                 \* the value Date.now() returns
    isDarkMode,          \* App state
    tasks,               \* TaskManager state, in declaration order
    currentTask,
    selectedCategory,
    searchQuery,
    showNotification,
    notificationMessage,
    selectedPriority,
    selectedDueDate,
    taskDescription,
    sortBy,
    mobileOpen

vars == <<pc, localStorage, now, isDarkMode, tasks, currentTask, selectedCategory,
          searchQuery, showNotification, notificationMessage, selectedPriority,
          selectedDueDate, taskDescription, sortBy, mobileOpen>>

draftVars == <<currentTask, selectedCategory, selectedPriority, selectedDueDate,
               taskDescription>>
notificationVars == <<showNotification, notificationMessage>>
viewVars == <<searchQuery, sortBy, mobileOpen>>

----------------------------------------------------------------------------
(* Bounds of the model *)

MaxTasks == 2            \* add is disabled once the collection has this many tasks
MaxClock == 1            \* Date.now() ranges over 0..MaxClock

(* Input sets: what the user can type or pick *)
Descriptions == { "", "d" }
DueDays == { 1 }
Keys == { "Enter", "a" }
TaskIds == 0..MaxClock

----------------------------------------------------------------------------
(* Values *)

categories == <<"Personal", "Work", "Shopping", "Health", "Other">>
Categories == { categories[i] : i \in 1..Len(categories) }
PseudoCategories == { "All", "High Priority", "Due Today" }
DrawerSelections == PseudoCategories \cup Categories
DropdownSelections == { "All" } \cup Categories
Priorities == { "High", "Medium", "Low" }

\* dueDate: Date | null in memory; a Date is serialized by JSON.stringify to its
\* ISO string and JSON.parse gives that string back.
Null == [kind |-> "null", t |-> 0]
DateOf(t) == [kind |-> "Date", t |-> t]
IsoString(t) == [kind |-> "string", t |-> t]
DraftDates == { Null } \cup { DateOf(t) : t \in DueDays }

Whitespace == { " " }

RECURSIVE TrimStart(_)
TrimStart(s) ==
    IF s # <<>> /\ Head(s) \in Whitespace THEN TrimStart(Tail(s)) ELSE s

RECURSIVE TrimEnd(_)
TrimEnd(s) ==
    IF s # <<>> /\ s[Len(s)] \in Whitespace
    THEN TrimEnd(SubSeq(s, 1, Len(s) - 1))
    ELSE s

\* String.prototype.trim
Trim(s) == TrimEnd(TrimStart(s))

\* String.prototype.toLowerCase
LowerChar(c) ==
    CASE c = "A" -> "a"
      [] c = "B" -> "b"
      [] OTHER -> c
ToLowerCase(s) == [i \in 1..Len(s) |-> LowerChar(s[i])]

\* String.prototype.includes
Includes(s, q) ==
    \E i \in 0..(Len(s) - Len(q)) : SubSeq(s, i + 1, i + Len(q)) = q

----------------------------------------------------------------------------
(* localStorage and JSON *)

AbsentTasks == [kind |-> "absent", json |-> <<>>]
MalformedTasks == [kind |-> "malformed", json |-> <<>>]
AbsentTheme == [kind |-> "absent", json |-> FALSE]
MalformedTheme == [kind |-> "malformed", json |-> FALSE]

\* JSON.stringify of one field value of type Date | null (or a string, once a
\* collection was loaded from storage)
StringifyDate(d) == IF d.kind = "Date" THEN IsoString(d.t) ELSE d

\* JSON.stringify(tasks)
JSONstringify(ts) ==
    [kind |-> "json",
     json |-> [i \in 1..Len(ts) |-> [ts[i] EXCEPT !.dueDate = StringifyDate(@)]]]

\* JSON.parse(savedTasks): no reviver, strings stay strings
JSONparse(slot) == slot.json

\* useState<Task[]> initializer: savedTasks ? JSON.parse(savedTasks) : []
LoadTasks(slot) == IF slot.kind = "absent" THEN <<>> ELSE JSONparse(slot)

\* useState isDarkMode initializer: savedTheme ? JSON.parse(savedTheme) : false
LoadTheme(slot) == IF slot.kind = "absent" THEN FALSE ELSE slot.json

\* useEffect(() => localStorage.setItem(STORAGE_KEY, JSON.stringify(tasks)), [tasks])
saveTasksEffect_OnCountChange(ts) ==
    localStorage' = IF Len(ts) # Len(tasks)
                    THEN [localStorage EXCEPT !.tasks = JSONstringify(ts)]
                    ELSE localStorage

saveTasksEffect(ts) ==
    localStorage' = [localStorage EXCEPT !.tasks = JSONstringify(ts)]

----------------------------------------------------------------------------
(* Initial states *)

InMemoryDefaults ==
    /\ isDarkMode = FALSE
    /\ tasks = <<>>
    /\ currentTask = <<>>
    /\ selectedCategory = "All"
    /\ searchQuery = <<>>
    /\ showNotification = FALSE
    /\ notificationMessage = ""
    /\ selectedPriority = "Medium"
    /\ selectedDueDate = Null
    /\ taskDescription = ""
    /\ sortBy = "priority"
    /\ mobileOpen = FALSE

\* first visit: nothing stored under either key
Init ==
    /\ pc = "boot"
    /\ now = 0
    /\ localStorage = [tasks |-> AbsentTasks, theme |-> AbsentTheme]
    /\ InMemoryDefaults

----------------------------------------------------------------------------
(* Start-up *)

\* App(): the isDarkMode initializer; JSON.parse throws on a malformed value
AppMount ==
    /\ pc = "boot"
    /\ IF localStorage.theme.kind = "malformed"
       THEN /\ pc' = "crashed"
            /\ UNCHANGED isDarkMode
       ELSE /\ pc' = "app"
            /\ isDarkMode' = LoadTheme(localStorage.theme)
    /\ UNCHANGED <<localStorage, now, tasks, draftVars, notificationVars, viewVars>>

\* TaskManager(): the useState initializers, then the first run of the save effect
TaskManagerMount ==
    /\ pc = "app"
    /\ IF localStorage.tasks.kind = "malformed"
       THEN /\ pc' = "crashed"
            /\ UNCHANGED <<tasks, localStorage>>
       ELSE /\ pc' = "running"
            /\ tasks' = LoadTasks(localStorage.tasks)
            /\ saveTasksEffect(tasks')
    /\ currentTask' = <<>>
    /\ selectedCategory' = "All"
    /\ searchQuery' = <<>>
    /\ showNotification' = FALSE
    /\ notificationMessage' = ""
    /\ selectedPriority' = "Medium"
    /\ selectedDueDate' = Null
    /\ taskDescription' = ""
    /\ sortBy' = "priority"
    /\ mobileOpen' = FALSE
    /\ UNCHANGED <<now, isDarkMode>>

\* the page is closed and opened again: component state is gone, localStorage stays
Reload ==
    /\ pc \in {"running", "crashed"}
    /\ pc' = "boot"
    /\ isDarkMode' = FALSE
    /\ tasks' = <<>>
    /\ currentTask' = <<>>
    /\ selectedCategory' = "All"
    /\ searchQuery' = <<>>
    /\ showNotification' = FALSE
    /\ notificationMessage' = ""
    /\ selectedPriority' = "Medium"
    /\ selectedDueDate' = Null
    /\ taskDescription' = ""
    /\ sortBy' = "priority"
    /\ mobileOpen' = FALSE
    /\ UNCHANGED <<localStorage, now>>

\* the clock Date.now() reads advances
Tick ==
    /\ now < MaxClock
    /\ now' = now + 1
    /\ UNCHANGED <<pc, localStorage, isDarkMode, tasks, draftVars, notificationVars,
                   viewVars>>

----------------------------------------------------------------------------
(* TaskManager: event handlers *)

\* showSuccessMessage(message)
showSuccessMessage(message) ==
    /\ notificationMessage' = message
    /\ showNotification' = TRUE

\* if (currentTask.trim())
TitleAccepted_NoTrim == currentTask # <<>>

TitleAccepted == Trim(currentTask) # <<>>

\* const newTask: Task = {...}
newTask_Untrimmed ==
    [id          |-> now,
     text        |-> currentTask,
     completed   |-> FALSE,
     category    |-> IF selectedCategory = "All" THEN "Other" ELSE selectedCategory,
     priority    |-> selectedPriority,
     dueDate     |-> selectedDueDate,
     description |-> taskDescription,
     expanded    |-> FALSE]

newTask_CategoryOther ==
    [id          |-> now,
     text        |-> Trim(currentTask),
     completed   |-> FALSE,
     category    |-> "Other",
     priority    |-> selectedPriority,
     dueDate     |-> selectedDueDate,
     description |-> taskDescription,
     expanded    |-> FALSE]

newTask ==
    [id          |-> now,
     text        |-> Trim(currentTask),
     completed   |-> FALSE,
     category    |-> IF selectedCategory = "All" THEN "Other" ELSE selectedCategory,
     priority    |-> selectedPriority,
     dueDate     |-> selectedDueDate,
     description |-> taskDescription,
     expanded    |-> FALSE]

handleAddTask ==
    /\ pc = "running"
    /\ IF TitleAccepted
       THEN /\ tasks' = Append(tasks, newTask)
            /\ saveTasksEffect(tasks')
            /\ currentTask' = <<>>
            /\ taskDescription' = ""
            /\ selectedDueDate' = Null
            /\ showSuccessMessage("Task added successfully!")
            /\ UNCHANGED <<selectedCategory, selectedPriority>>
       ELSE UNCHANGED <<tasks, localStorage, draftVars, notificationVars>>
    /\ UNCHANGED <<pc, now, isDarkMode, viewVars>>

\* tasks.filter((task) => task.id !== taskId)
WithoutId(ts, taskId) == SelectSeq(ts, LAMBDA task : task.id # taskId)

handleDeleteTask(taskId) ==
    /\ pc = "running"
    /\ tasks' = WithoutId(tasks, taskId)
    /\ saveTasksEffect(tasks')
    /\ showSuccessMessage("Task deleted successfully!")
    /\ UNCHANGED <<pc, now, isDarkMode, draftVars, viewVars>>

\* tasks.map((task) => task.id === taskId ? {...task, completed: !task.completed} : task)
ToggledCompleted(ts, taskId) ==
    [i \in 1..Len(ts) |->
        IF ts[i].id = taskId THEN [ts[i] EXCEPT !.completed = ~@] ELSE ts[i]]

handleToggleComplete(taskId) ==
    /\ pc = "running"
    /\ tasks' = ToggledCompleted(tasks, taskId)
    /\ saveTasksEffect(tasks')
    /\ showSuccessMessage("Task status updated!")
    /\ UNCHANGED <<pc, now, isDarkMode, draftVars, viewVars>>

\* tasks.map((task) => task.id === taskId ? {...task, expanded: !task.expanded} : task)
ToggledExpanded(ts, taskId) ==
    [i \in 1..Len(ts) |->
        IF ts[i].id = taskId THEN [ts[i] EXCEPT !.expanded = ~@] ELSE ts[i]]

handleToggleExpand_Notifies(taskId) ==
    /\ pc = "running"
    /\ tasks' = ToggledExpanded(tasks, taskId)
    /\ saveTasksEffect(tasks')
    /\ showSuccessMessage("Task status updated!")
    /\ UNCHANGED <<pc, now, isDarkMode, draftVars, viewVars>>

handleToggleExpand(taskId) ==
    /\ pc = "running"
    /\ tasks' = ToggledExpanded(tasks, taskId)
    /\ saveTasksEffect(tasks')
    /\ UNCHANGED <<pc, now, isDarkMode, draftVars, notificationVars, viewVars>>

handleKeyPress(key) ==
    /\ pc = "running"
    /\ IF key = "Enter"
       THEN handleAddTask
       ELSE UNCHANGED vars

handleDrawerToggle ==
    /\ pc = "running"
    /\ mobileOpen' = ~mobileOpen
    /\ UNCHANGED <<pc, localStorage, now, isDarkMode, tasks, draftVars,
                   notificationVars, searchQuery, sortBy>>

\* the state setters the form controls call directly
setCurrentTask(value) ==
    /\ pc = "running"
    /\ currentTask' = value
    /\ UNCHANGED <<pc, localStorage, now, isDarkMode, tasks, selectedCategory,
                   selectedPriority, selectedDueDate, taskDescription,
                   notificationVars, viewVars>>

setSelectedCategory(value) ==
    /\ pc = "running"
    /\ selectedCategory' = value
    /\ UNCHANGED <<pc, localStorage, now, isDarkMode, tasks, currentTask,
                   selectedPriority, selectedDueDate, taskDescription,
                   notificationVars, viewVars>>

setSelectedPriority(value) ==
    /\ pc = "running"
    /\ selectedPriority' = value
    /\ UNCHANGED <<pc, localStorage, now, isDarkMode, tasks, currentTask,
                   selectedCategory, selectedDueDate, taskDescription,
                   notificationVars, viewVars>>

setSelectedDueDate(value) ==
    /\ pc = "running"
    /\ selectedDueDate' = value
    /\ UNCHANGED <<pc, localStorage, now, isDarkMode, tasks, currentTask,
                   selectedCategory, selectedPriority, taskDescription,
                   notificationVars, viewVars>>

setTaskDescription(value) ==
    /\ pc = "running"
    /\ taskDescription' = value
    /\ UNCHANGED <<pc, localStorage, now, isDarkMode, tasks, currentTask,
                   selectedCategory, selectedPriority, selectedDueDate,
                   notificationVars, viewVars>>

setSearchQuery(value) ==
    /\ pc = "running"
    /\ searchQuery' = value
    /\ UNCHANGED <<pc, localStorage, now, isDarkMode, tasks, draftVars,
                   notificationVars, sortBy, mobileOpen>>

\* ToggleButtonGroup onChange: value && setSortBy(value)
setSortBy(value) ==
    /\ pc = "running"
    /\ sortBy' = value
    /\ UNCHANGED <<pc, localStorage, now, isDarkMode, tasks, draftVars,
                   notificationVars, searchQuery, mobileOpen>>

\* Snackbar / Alert onClose: setShowNotification(false)
SnackbarOnClose ==
    /\ pc = "running"
    /\ showNotification
    /\ showNotification' = FALSE
    /\ UNCHANGED <<pc, localStorage, now, isDarkMode, tasks, draftVars,
                   notificationMessage, viewVars>>

\* drawer IconButton: onThemeChange(!isDarkMode), i.e. App's setIsDarkMode
onThemeChange(isDark) ==
    /\ pc = "running"
    /\ isDarkMode' = isDark
    /\ UNCHANGED <<pc, localStorage, now, tasks, draftVars, notificationVars,
                   viewVars>>

----------------------------------------------------------------------------
(* The rendered list *)

\* the filter callback of filteredAndSortedTasks
MatchesFilter(task) ==
    /\ Includes(ToLowerCase(task.text), ToLowerCase(searchQuery))
    /\ (selectedCategory = "All" \/ task.category = selectedCategory)

filtered == SelectSeq(tasks, MatchesFilter)

\* const priorityOrder = { High: 0, Medium: 1, Low: 2 }
priorityOrder(priority) ==
    CASE priority = "High" -> 0
      [] priority = "Medium" -> 1
      [] priority = "Low" -> 2

\* the comparator handed to filtered.sort
compare(a, b) ==
    IF sortBy = "priority"
    THEN priorityOrder(a.priority) - priorityOrder(b.priority)
    ELSE IF a.dueDate.kind = "null" THEN 1
         ELSE IF b.dueDate.kind = "null" THEN -1
         ELSE a.dueDate.t - b.dueDate.t

\* a.dueDate.getTime() on a due date that was loaded as a string is a TypeError
compareThrows(a, b) ==
    /\ sortBy = "dueDate"
    /\ a.dueDate.kind # "null" /\ b.dueDate.kind # "null"
    /\ "string" \in {a.dueDate.kind, b.dueDate.kind}

Max(S) == CHOOSE m \in S : \A n \in S : n <= m
InsertAfter(seq, k, x) == SubSeq(seq, 1, k) \o <<x>> \o SubSeq(seq, k + 1, Len(seq))

\* Array.prototype.sort, as a stable insertion sort of the indices 1..n of list.
\* Engines differ in how they call comparefn: with the element being placed first
\* (it moves left past e while comparefn(pivot, e) < 0) or with the earlier element
\* first (it moves left past e while comparefn(e, pivot) > 0). For a consistent
\* comparator both give the one stable order; for an inconsistent one ECMAScript
\* leaves the order to the implementation.
RECURSIVE InsertionSort(_, _, _)
InsertionSort(list, n, pivotFirst) ==
    IF n = 0
    THEN <<>>
    ELSE LET sorted == InsertionSort(list, n - 1, pivotFirst)
             stays == { j \in 1..Len(sorted) :
                          IF pivotFirst
                          THEN compare(list[n], list[sorted[j]]) >= 0
                          ELSE compare(list[sorted[j]], list[n]) <= 0 }
         IN  InsertAfter(sorted, Max({0} \cup stays), n)

\* the index orders filtered.sort(...) can produce; none when the comparator throws
SortOutcomes(list) ==
    IF \E i, j \in 1..Len(list) : i # j /\ compareThrows(list[i], list[j])
    THEN {}
    ELSE { InsertionSort(list, Len(list), pivotFirst) : pivotFirst \in BOOLEAN }

\* the lists filteredAndSortedTasks can be
filteredAndSortedTasks ==
    { [k \in 1..Len(order) |-> filtered[order[k]]] : order \in SortOutcomes(filtered) }

\* ids of the list items on screen: the only ids the row buttons pass on
RenderedIds == { filtered[i].id : i \in 1..Len(filtered) }

\* the expand button is rendered only for a task with a description
ExpandableIds ==
    { filtered[i].id : i \in { j \in 1..Len(filtered) : filtered[j].description # "" } }

\* getTaskCounts().highPriority: what the badge of the drawer item "High Priority"
\* counts
CountsAsHighPriority(task) == task.priority = "High" /\ ~task.completed

----------------------------------------------------------------------------
(* Spec: the task store driven through the rendered controls *)

\* MaxTasks bounds the collection: an add that would append is disabled at the bound
AddWithinBound == TitleAccepted => Len(tasks) < MaxTasks

StoreTitles == { <<>>, <<" ", "a", " ">> }

Next ==
    \/ AppMount
    \/ TaskManagerMount
    \/ Tick
    \/ \E value \in StoreTitles : setCurrentTask(value)
    \/ \E value \in DraftDates : setSelectedDueDate(value)
    \/ \E value \in Descriptions : setTaskDescription(value)
    \/ AddWithinBound /\ handleAddTask
    \/ \E taskId \in RenderedIds : handleDeleteTask(taskId)
    \/ \E taskId \in RenderedIds : handleToggleComplete(taskId)
    \/ \E taskId \in ExpandableIds : handleToggleExpand(taskId)

Spec == Init /\ [][Next]_vars

----------------------------------------------------------------------------
(* SpecForm: the add form, every draft field, both ways to submit *)

FormTitles == { <<>>, <<" ">>, <<" ", "a", " ">> }

NextForm ==
    \/ AppMount
    \/ TaskManagerMount
    \/ \E value \in FormTitles : setCurrentTask(value)
    \/ \E value \in Priorities : setSelectedPriority(value)
    \/ \E value \in DraftDates : setSelectedDueDate(value)
    \/ \E value \in Descriptions : setTaskDescription(value)
    \/ AddWithinBound /\ handleAddTask
    \/ \E key \in Keys : AddWithinBound /\ handleKeyPress(key)
    \/ SnackbarOnClose

SpecForm == Init /\ [][NextForm]_vars

----------------------------------------------------------------------------
(* SpecCategory: the shared category selection, set from the drawer or from  *)
(* the form's dropdown, and the tasks created under it                       *)

NextCategory ==
    \/ AppMount
    \/ TaskManagerMount
    \/ Tick
    \/ \E value \in DrawerSelections : setSelectedCategory(value)
    \/ \E value \in DropdownSelections : setSelectedCategory(value)
    \/ \E value \in StoreTitles : setCurrentTask(value)
    \/ AddWithinBound /\ handleAddTask
    \/ \E taskId \in RenderedIds : handleDeleteTask(taskId)
    \/ \E taskId \in RenderedIds : handleToggleComplete(taskId)

SpecCategory == Init /\ [][NextCategory]_vars

----------------------------------------------------------------------------
(* SpecBoot: start-up against whatever the two localStorage keys hold, and   *)
(* restarts                                                                  *)

InitBoot ==
    /\ pc = "boot"
    /\ now = 0
    /\ localStorage \in
         [tasks : {AbsentTasks, MalformedTasks},
          theme : {AbsentTheme, MalformedTheme,
                   [kind |-> "json", json |-> TRUE],
                   [kind |-> "json", json |-> FALSE]}]
    /\ InMemoryDefaults

NextBoot ==
    \/ AppMount
    \/ TaskManagerMount
    \/ Reload
    \/ onThemeChange(~isDarkMode)
    \/ handleDrawerToggle
    \/ \E value \in StoreTitles : setCurrentTask(value)
    \/ \E value \in DraftDates : setSelectedDueDate(value)
    \/ AddWithinBound /\ handleAddTask
    \/ \E taskId \in RenderedIds : handleToggleComplete(taskId)

SpecBoot == InitBoot /\ [][NextBoot]_vars

----------------------------------------------------------------------------
(* SpecApi: the store operations called with any id, present or not *)

NextApi ==
    \/ AppMount
    \/ TaskManagerMount
    \/ Tick
    \/ \E value \in StoreTitles : setCurrentTask(value)
    \/ AddWithinBound /\ handleAddTask
    \/ \E taskId \in TaskIds : handleDeleteTask(taskId)
    \/ \E taskId \in TaskIds : handleToggleComplete(taskId)
    \/ \E taskId \in TaskIds : handleToggleExpand(taskId)
    \/ SnackbarOnClose

SpecApi == Init /\ [][NextApi]_vars

----------------------------------------------------------------------------
(* SpecFilter: the search box and the filter selection over tasks of different *)
(* titles, categories and priorities                                          *)

FilterTitles == { <<>>, <<"a">>, <<"A", "b">> }
Queries == { <<>>, <<"B">>, <<"b", "a">> }

NextFilter ==
    \/ AppMount
    \/ TaskManagerMount
    \/ \E value \in FilterTitles : setCurrentTask(value)
    \/ \E value \in Queries : setSearchQuery(value)
    \/ \E value \in DrawerSelections : setSelectedCategory(value)
    \/ \E value \in Priorities : setSelectedPriority(value)
    \/ AddWithinBound /\ handleAddTask

SpecFilter == Init /\ [][NextFilter]_vars

----------------------------------------------------------------------------
(* SpecSort: the sort key over tasks added with and without due dates *)

SortDays == { 1, 2 }
SortDates == { Null } \cup { DateOf(t) : t \in SortDays }
SortKeys == { "priority", "dueDate" }

NextSort ==
    \/ AppMount
    \/ TaskManagerMount
    \/ Tick
    \/ \E value \in StoreTitles : setCurrentTask(value)
    \/ \E value \in SortDates : setSelectedDueDate(value)
    \/ \E value \in SortKeys : setSortBy(value)
    \/ AddWithinBound /\ handleAddTask

SpecSort == Init /\ [][NextSort]_vars

----------------------------------------------------------------------------
(* SpecNotify: store operations next to the controls that only change the view *)

NotifyQueries == { <<>>, <<"a">> }
NotifySelections == { "All", "Other" }

NextNotify ==
    \/ AppMount
    \/ TaskManagerMount
    \/ \E value \in StoreTitles : setCurrentTask(value)
    \/ \E value \in Descriptions : setTaskDescription(value)
    \/ AddWithinBound /\ handleAddTask
    \/ \E taskId \in RenderedIds : handleDeleteTask(taskId)
    \/ \E taskId \in RenderedIds : handleToggleComplete(taskId)
    \/ \E taskId \in ExpandableIds : handleToggleExpand(taskId)
    \/ \E value \in NotifyQueries : setSearchQuery(value)
    \/ \E value \in NotifySelections : setSelectedCategory(value)
    \/ \E value \in SortKeys : setSortBy(value)
    \/ handleDrawerToggle
    \/ onThemeChange(~isDarkMode)
    \/ SnackbarOnClose

SpecNotify == Init /\ [][NextNotify]_vars

----------------------------------------------------------------------------
(* SpecSelection: adds under the shared category selection, next to the      *)
(* controls that decide what the list shows                                  *)

SharedSelections == { "All", "Work", "Due Today" }
SharedPriorities == { "Medium", "High" }
SharedQueries == { <<>>, <<"b">> }

NextSelection ==
    \/ AppMount
    \/ TaskManagerMount
    \/ \E value \in StoreTitles : setCurrentTask(value)
    \/ \E value \in SharedSelections : setSelectedCategory(value)
    \/ \E value \in SharedPriorities : setSelectedPriority(value)
    \/ \E value \in SharedQueries : setSearchQuery(value)
    \/ \E value \in SortKeys : setSortBy(value)
    \/ AddWithinBound /\ handleAddTask

SpecSelection == Init /\ [][NextSelection]_vars

----------------------------------------------------------------------------
(* Properties *)

TaskIdsOf(ts) == { ts[i].id : i \in 1..Len(ts) }
IsBlank(s) == \A i \in 1..Len(s) : s[i] \in Whitespace

\* C1: every task in the store has a category among Personal, Work, Shopping,
\* Health and Other, never a pseudo-category of the filter, also when it was added
\* while a pseudo-category was selected.
C1_CategoryInFixedSet ==
    \A i \in 1..Len(tasks) : tasks[i].category \in Categories

\* C2: no two tasks in the store have the same id, also when two adds read the
\* same clock value.
C2_UniqueIds ==
    \A i, j \in 1..Len(tasks) : i # j => tasks[i].id # tasks[j].id

\* C3: write-through: whenever the component is ready for the next event, the
\* tasks entry of localStorage is the serialization of the in-memory collection
\* (same tasks, same order).
C3_WriteThrough ==
    pc = "running" => localStorage.tasks = JSONstringify(tasks)

\* a delete has just been saved while a completed, expanded task with a due date
\* remains, stored with the date as its ISO string
C3_Witness ==
    /\ pc = "running"
    /\ notificationMessage = "Task deleted successfully!"
    /\ Len(tasks) = 1
    /\ tasks[1].completed /\ tasks[1].expanded
    /\ tasks[1].dueDate.kind = "Date"
    /\ localStorage.tasks.kind = "json"
    /\ Len(localStorage.tasks.json) = 1
    /\ localStorage.tasks.json[1].dueDate.kind = "string"

\* C4: round trip: saving the current collection and loading it at the next start
\* gives back an equal collection, a due date coming back as a date value.
C4_RoundTrip ==
    pc = "running" => LoadTasks(JSONstringify(tasks)) = tasks

\* C5: a malformed value under either key never makes start-up fail.
C5_StartupNeverFails ==
    pc # "crashed"

\* C6: the value stored under the theme key is the current dark-mode flag: loading
\* the theme preference returns the last selected theme.
C6_ThemePersisted ==
    pc = "running" => LoadTheme(localStorage.theme) = isDarkMode

\* C7: an add whose title is non-empty after trimming keeps every existing task,
\* unchanged and in order, and appends exactly one task: text the trimmed title,
\* completed and expanded false, and the draft priority, due date and description.
C7_AddAppendsOne ==
    [][ (handleAddTask /\ ~IsBlank(currentTask)) =>
          /\ Len(tasks') = Len(tasks) + 1
          /\ SubSeq(tasks', 1, Len(tasks)) = tasks
          /\ LET added == tasks'[Len(tasks')]
             IN  /\ added.text = Trim(currentTask)
                 /\ added.text # <<>>
                 /\ Head(added.text) \notin Whitespace
                 /\ added.text[Len(added.text)] \notin Whitespace
                 /\ added.completed = FALSE
                 /\ added.expanded = FALSE
                 /\ added.priority = selectedPriority
                 /\ added.dueDate = selectedDueDate
                 /\ added.description = taskDescription ]_vars

\* a second task was just appended after a different first one, from a title that
\* needed trimming, with non-default priority, a due date and a description
C7_Witness ==
    /\ pc = "running"
    /\ Len(tasks) = 2
    /\ showNotification /\ notificationMessage = "Task added successfully!"
    /\ tasks[1].priority = "Low" /\ tasks[1].dueDate = Null
    /\ tasks[2].text = <<"a">>
    /\ tasks[2].priority = "High"
    /\ tasks[2].dueDate.kind = "Date"
    /\ tasks[2].description = "d"
    /\ currentTask = <<>>

\* C8: add with an empty or whitespace-only title, from the Add button or the
\* Enter key, changes neither the collection, nor the stored tasks entry, nor the
\* draft fields, nor the notification.
C8_BlankAddIsNoOp ==
    [][ (IsBlank(currentTask) /\ (handleAddTask \/ handleKeyPress("Enter"))) =>
          UNCHANGED <<tasks, localStorage, draftVars, notificationVars>> ]_vars

\* a whitespace-only title is in the field, with other draft fields filled in, a
\* task in the store and no notification showing; add can be invoked here and
\* leaves this very state
C8_Witness ==
    /\ pc = "running"
    /\ currentTask = <<" ">>
    /\ taskDescription = "d" /\ selectedDueDate # Null /\ selectedPriority = "High"
    /\ Len(tasks) = 1
    /\ ~showNotification
    /\ ENABLED (handleAddTask /\ UNCHANGED vars)
    /\ ENABLED (handleKeyPress("Enter") /\ UNCHANGED vars)

C10_ToggleFlipsOneField ==
    [][ \A taskId \in TaskIdsOf(tasks) :
          handleToggleComplete(taskId) =>
              /\ \E i \in 1..Len(tasks) :
                    /\ tasks[i].id = taskId
                    /\ tasks' = [tasks EXCEPT ![i].completed = ~@]
              /\ ToggledCompleted(ToggledCompleted(tasks, taskId), taskId) = tasks ]_vars

\* C11: the displayed list holds exactly the tasks whose text contains the query,
\* case-insensitively, and that match the selection: "All" matches every task, a
\* real category matches by equality, and a pseudo-category ("High Priority",
\* "Due Today") is not decided by comparing it with task.category: whether a task
\* is shown under it does not depend on the task's category, and the tasks the
\* "High Priority" badge counts are shown under "High Priority".
TextContainsQuery(task) ==
    \E i \in 0..(Len(task.text) - Len(searchQuery)) :
        \A k \in 1..Len(searchQuery) :
            LowerChar(task.text[i + k]) = LowerChar(searchQuery[k])

IsShown(task) == \E k \in 1..Len(filtered) : filtered[k] = task

C11_DisplayedMatchesFilter ==
    pc = "running" =>
      \A i \in 1..Len(tasks) :
        LET task == tasks[i]
        IN  /\ selectedCategory = "All" =>
                  (IsShown(task) <=> TextContainsQuery(task))
            /\ selectedCategory \in Categories =>
                  (IsShown(task) <=>
                      TextContainsQuery(task) /\ task.category = selectedCategory)
            /\ selectedCategory \in PseudoCategories \ {"All"} =>
                  \A c \in Categories :
                      IsShown(task) <=> MatchesFilter([task EXCEPT !.category = c])
            /\ selectedCategory = "High Priority" =>
                  (TextContainsQuery(task) /\ CountsAsHighPriority(task)
                      => IsShown(task))

\* C12: with sort key dueDate, in every list the sort can produce each task with
\* a due date comes before each task without one, the tasks with due dates are in
\* ascending date order, and tasks that tie (equal dates, or both without a date)
\* keep their order in the collection.
HasDate(task) == task.dueDate.kind # "null"
DateTie(a, b) ==
    \/ ~HasDate(a) /\ ~HasDate(b)
    \/ HasDate(a) /\ HasDate(b) /\ a.dueDate.t = b.dueDate.t

C12_DueDateOrder ==
    (pc = "running" /\ sortBy = "dueDate") =>
      \A order \in SortOutcomes(filtered) :
        \A i, j \in 1..Len(order) :
          i < j =>
            LET a == filtered[order[i]]
                b == filtered[order[j]]
            IN  /\ ~HasDate(a) => ~HasDate(b)
                /\ (HasDate(a) /\ HasDate(b)) => a.dueDate.t <= b.dueDate.t
                /\ (DateTie(a, b) /\ a # b) => order[i] < order[j]

\* C13: only add, delete and toggle-complete raise the notification: a step that
\* makes it visible or changes its message is one of these three; toggleExpanded
\* leaves visibility and message as they are; and each accepted add, each delete
\* and each toggle-complete leaves the notification visible with its own message,
\* whatever was showing before.
AcceptedAddStep == handleAddTask /\ ~IsBlank(currentTask)
DeleteStep == \E taskId \in TaskIdsOf(tasks) : handleDeleteTask(taskId)
ToggleCompleteStep == \E taskId \in TaskIdsOf(tasks) : handleToggleComplete(taskId)
ToggleExpandStep == \E taskId \in TaskIdsOf(tasks) : handleToggleExpand(taskId)

C13_NotificationOnlyOnStoreOps ==
    [][ /\ (notificationMessage' # notificationMessage
               \/ (showNotification' /\ ~showNotification))
            => (AcceptedAddStep \/ DeleteStep \/ ToggleCompleteStep)
        /\ ToggleExpandStep => UNCHANGED notificationVars
        /\ AcceptedAddStep =>
              showNotification' /\ notificationMessage' = "Task added successfully!"
        /\ DeleteStep =>
              showNotification' /\ notificationMessage' = "Task deleted successfully!"
        /\ ToggleCompleteStep =>
              showNotification' /\ notificationMessage' = "Task status updated!"
      ]_vars

\* the notification of a toggle-complete was dismissed, and the task was expanded
\* and search, filter, sort key, drawer and theme were all changed with the
\* notification still hidden and its message still that of the toggle
C13_Witness ==
    /\ pc = "running"
    /\ ~showNotification
    /\ notificationMessage = "Task status updated!"
    /\ Len(tasks) = 1
    /\ tasks[1].completed /\ tasks[1].expanded
    /\ searchQuery # <<>>
    /\ selectedCategory # "All"
    /\ sortBy = "dueDate"
    /\ mobileOpen
    /\ isDarkMode

\* C14: the add form and the list filter share one selection, so the task a
\* successful add creates matches the filter of that moment: under "All" it gets
\* category "Other", under any other selection it gets that selection as its
\* category, and when the search query is empty it is in the displayed list right
\* after the add.
C14_NewTaskIsDisplayed ==
    [][ (handleAddTask /\ TitleAccepted /\ searchQuery = <<>>) =>
          LET added == tasks'[Len(tasks')]
          IN  /\ Len(tasks') = Len(tasks) + 1
              /\ added.category = (IF selectedCategory = "All" THEN "Other"
                                                                 ELSE selectedCategory)
              /\ selectedCategory' = selectedCategory
              /\ \E k \in 1..Len(filtered') : filtered'[k] = added
              /\ filteredAndSortedTasks' # {}
              /\ \A shown \in filteredAndSortedTasks' :
                     \E k \in 1..Len(shown) : shown[k] = added
      ]_vars

\* a task added under a real category, hidden now, and one just added under the
\* pseudo-category that is selected
C14_Witness ==
    /\ pc = "running"
    /\ showNotification /\ notificationMessage = "Task added successfully!"
    /\ currentTask = <<>> /\ searchQuery = <<>>
    /\ selectedCategory = "Due Today"
    /\ Len(tasks) = 2
    /\ tasks[1].category = "Work" /\ ~IsShown(tasks[1])
    /\ tasks[2].category = "Due Today" /\ IsShown(tasks[2])

====
